---- MODULE Spec2Model ----
(***************************************************************************)
(* Model of the Blockchain class of src/src/blockchain.js: an in-memory,   *)
(* hash-linked chain of blocks with a height counter, the append routine   *)
(* _addBlock, the star submission flow submitStar and the backward walk    *)
(* validateChain.  Every promise-returning method is modelled with its     *)
(* suspension points (await): the code before the first await runs in the  *)
(* action that issues the call, each continuation is an action of its own. *)
(* The Block class (block.js) is not part of the sources at hand; its      *)
(* constructor and validate() are modelled from the specification.         *)
(***************************************************************************)
EXTENDS Integers, Sequences, FiniteSets, TLC

(***************************************************************************)
(* chain, height: this.chain and this.height.                              *)
(* now:           the clock, in whole seconds.                             *)
(* phase:         "new" before the constructor has run, "ready" after.     *)
(* calls:         the calls issued so far, in order, each with the place   *)
(*                its code has reached and the locals of its closure.      *)
(* tampered:      the fields of stored blocks overwritten from outside.    *)
(***************************************************************************)
VARIABLES chain, height, now, phase, calls, tampered

vars == <<chain, height, now, phase, calls, tampered>>

(***************************************************************************)
(* Bounds of the model.                                                    *)
(***************************************************************************)
MaxCalls == 3
MaxTicks == 1
MaxTampers == 1
StartTime == 1000

(***************************************************************************)
(* The error log of a walk that runs in a cycle grows without end; the     *)
(* model stops recording at MaxLog entries.  A walk that does not revisit  *)
(* a block records at most one entry per stored block, fewer than MaxLog.  *)
(***************************************************************************)
MaxLog == MaxCalls + 1

(***************************************************************************)
(* Values.  Texts are sequences of character codes; the body of a block is *)
(* the hex encoding of the JSON text of its data, two digits per           *)
(* character.  SHA256 is taken to be free of collisions: the digest of a   *)
(* text is the text under a tag.  null is the empty sequence.              *)
(***************************************************************************)
null == <<>>

Addresses == {65, 66}
Stars == {83}
OwnerKey == 111
StarKey == 115
DataKey == 100
GenesisText == 71

GenesisData == <<DataKey, GenesisText>>

StarData(address, star) == <<OwnerKey, address, StarKey, star>>

RECURSIVE HexEncode(_)
HexEncode(text) ==
    IF text = <<>> THEN <<>>
    ELSE <<Head(text) \div 16, Head(text) % 16>> \o HexEncode(Tail(text))

(***************************************************************************)
(* Decoding of a body: two hex digits per character, then the JSON text is *)
(* parsed.  A body of odd length or with a digit out of range, or a text   *)
(* that is no JSON object, fails; owner 0 stands for "no owner field".     *)
(***************************************************************************)
HexDigits == 0..15

RECURSIVE HexDecode(_)
HexDecode(body) ==
    IF body = <<>> THEN <<>>
    ELSE <<16 * body[1] + body[2]>> \o HexDecode(SubSeq(body, 3, Len(body)))

Decodable(body) ==
    /\ Len(body) % 2 = 0
    /\ \A k \in 1..Len(body) : body[k] \in HexDigits

JsonParse(text) ==
    IF Len(text) = 4 /\ text[1] = OwnerKey /\ text[3] = StarKey
    THEN [ok |-> TRUE, owner |-> text[2], star |-> text[4]]
    ELSE IF Len(text) = 2 /\ text[1] = DataKey
    THEN [ok |-> TRUE, owner |-> 0, star |-> text[2]]
    ELSE [ok |-> FALSE, owner |-> 0, star |-> 0]

GetBData(block) ==
    IF Decodable(block.body) THEN JsonParse(HexDecode(block.body))
    ELSE [ok |-> FALSE, owner |-> 0, star |-> 0]

NewBlock(data) ==
    [hash |-> null, height |-> 0, body |-> HexEncode(data), time |-> 0,
     previousBlockHash |-> null]

Stringify(block) ==
    <<block.hash, block.height, block.body, block.time, block.previousBlockHash>>

SHA256(text) == <<"sha256", text>>

BlockValidate(block) ==
    SHA256(Stringify([block EXCEPT !.hash = null])) = block.hash

(***************************************************************************)
(* The message of a submission: "<address>:<segment>:starRegistry".  The   *)
(* segment is a decimal number, a text that is not a number, or missing.   *)
(***************************************************************************)
NumSeg(n) == [k |-> "num", n |-> n]
TextSeg == [k |-> "text", n |-> 0]
NoSeg == [k |-> "missing", n |-> 0]

MsgTimes == {0, StartTime - 300, StartTime + 1}

Segments == {NumSeg(n) : n \in MsgTimes} \cup {TextSeg, NoSeg}

Message(address, seg) == [addr |-> address, seg |-> seg]

ParseInt(seg) ==
    IF seg.k = "num" THEN [nan |-> FALSE, n |-> seg.n] ELSE [nan |-> TRUE, n |-> 0]

Falsy(num) == num.nan \/ num.n = 0

Sign(address, message) == [signer |-> address, msg |-> message]

Verify(message, address, signature) ==
    signature.signer = address /\ signature.msg = message

ExpiredAtWindow(currentTime, messageTime) == (currentTime - (5 * 60)) >= messageTime

Expired(currentTime, messageTime) == (currentTime - (5 * 60)) > messageTime

SubmitCheckVerifyingFirst(address, message, signature, currentTime) ==
    LET messageTime == ParseInt(message.seg) IN
    IF Falsy(messageTime) THEN "format"
    ELSE IF ~Verify(message, address, signature) THEN "verify"
    ELSE IF Expired(currentTime, messageTime.n) THEN "old"
    ELSE "none"

SubmitCheck(address, message, signature, currentTime) ==
    LET messageTime == ParseInt(message.seg) IN
    IF Falsy(messageTime) THEN "format"
    ELSE IF Expired(currentTime, messageTime.n) THEN "old"
    ELSE IF ~Verify(message, address, signature) THEN "verify"
    ELSE "none"

(***************************************************************************)
(* Error log entries of validateChain.                                     *)
(***************************************************************************)
InvalidEntry(hash) == [kind |-> "invalid", hash |-> hash]
BrokenEntry(hash) == [kind |-> "broken", hash |-> hash]

(***************************************************************************)
(* getBlockByHash/getBlockByHeight: the first stored block that matches,   *)
(* as its 1-based position in the chain, 0 for null.                       *)
(***************************************************************************)
FirstIndex(S) == IF S = {} THEN 0 ELSE CHOOSE i \in S : \A j \in S : i <= j

GetBlockByHash(ch, hash) ==
    FirstIndex({i \in 1..Len(ch) : ch[i].hash = hash})

GetBlockByHeightAsPosition(ch, h) ==
    FirstIndex({i \in 1..Len(ch) : i = h})

GetBlockByHeight(ch, h) ==
    FirstIndex({i \in 1..Len(ch) : ch[i].height = h})

(***************************************************************************)
(* A call in flight or settled.  blk is the position of the block the call *)
(* pushed (0: none), tip the block its walk of validateChain started at    *)
(* (0: no walk), cur the block the walk holds (0: null), v the result of   *)
(* block.validate() that the walk is awaiting; seg and at are the          *)
(* timestamp segment of the message and the time of the call.  A query     *)
(* has its argument in arg and the value it resolves with in result; got   *)
(* is the result of block.getBData() that getStarsByWalletAddress awaits.  *)
(***************************************************************************)
Call(kind, pc, blk, tip, v, log, outcome, err, seg, at) ==
    [kind |-> kind, pc |-> pc, blk |-> blk, tip |-> tip, cur |-> tip, v |-> v,
     errorLog |-> log, outcome |-> outcome, err |-> err, seg |-> seg, at |-> at,
     arg |-> 0, result |-> <<>>, got |-> <<>>]

Query(kind, arg, result) ==
    [Call(kind, "done", 0, 0, TRUE, <<>>, "resolved", "none", NoSeg, now)
        EXCEPT !.arg = arg, !.result = result]

(***************************************************************************)
(* validateChain up to its first await: with more than one block the walk  *)
(* starts at the tip and suspends on the tip's validate(); otherwise the   *)
(* empty log is resolved at once.                                          *)
(***************************************************************************)
ValidateChainStartAtOne(ch) ==
    IF Len(ch) > 0
    THEN [pc |-> "validate", cur |-> Len(ch), v |-> BlockValidate(ch[Len(ch)])]
    ELSE [pc |-> "resolved", cur |-> 0, v |-> TRUE]

ValidateChainStart(ch) ==
    IF Len(ch) > 1
    THEN [pc |-> "validate", cur |-> Len(ch), v |-> BlockValidate(ch[Len(ch)])]
    ELSE [pc |-> "resolved", cur |-> 0, v |-> TRUE]

(***************************************************************************)
(* _addBlock up to its first await: link, stamp, hash, push, raise height. *)
(***************************************************************************)
LinkedToNothing(ch, h, block) == block

Linked(ch, h, block) ==
    IF h + 1 > 0 THEN [block EXCEPT !.previousBlockHash = ch[h + 1].hash] ELSE block

Stamped(ch, h, block, time) ==
    [Linked(ch, h, block) EXCEPT !.height = h + 1, !.time = time]

HashedLater(ch, h, block, time) == Stamped(ch, h, block, time)

HashedBeforeStamping(ch, h, block, time) ==
    LET b == Stamped(ch, h, block, time) IN
    [b EXCEPT !.hash = SHA256(Stringify(Linked(ch, h, block)))]

Hashed(ch, h, block, time) ==
    LET b == Stamped(ch, h, block, time) IN
    [b EXCEPT !.hash = SHA256(Stringify(b))]

AddBlockKeepingHeight(kind, block, seg) ==
    LET newChain == Append(chain, Hashed(chain, height, block, now))
        start == ValidateChainStart(newChain)
    IN  /\ chain' = newChain
        /\ height' = height
        /\ calls' = Append(calls,
               Call(kind, IF start.pc = "resolved" THEN "awaitVC" ELSE start.pc,
                    Len(newChain), start.cur, start.v, <<>>, "pending", "none",
                    seg, now))

AddBlockPrepending(kind, block, seg) ==
    LET newChain == <<Hashed(chain, height, block, now)>> \o chain
        start == ValidateChainStart(newChain)
    IN  /\ chain' = newChain
        /\ height' = height + 1
        /\ calls' = Append(calls,
               Call(kind, IF start.pc = "resolved" THEN "awaitVC" ELSE start.pc,
                    Len(newChain), start.cur, start.v, <<>>, "pending", "none",
                    seg, now))

AddBlock(kind, block, seg) ==
    LET newChain == Append(chain, Hashed(chain, height, block, now))
        start == ValidateChainStart(newChain)
    IN  /\ chain' = newChain
        /\ height' = height + 1
        /\ calls' = Append(calls,
               Call(kind, IF start.pc = "resolved" THEN "awaitVC" ELSE start.pc,
                    Len(newChain), start.cur, start.v, <<>>, "pending", "none",
                    seg, now))

Init ==
    /\ chain = <<>>
    /\ height = -1
    /\ now = StartTime
    /\ phase = "new"
    /\ calls = <<>>
    /\ tampered = <<>>

(***************************************************************************)
(* initializeChain: appends the genesis block when the height is -1.       *)
(***************************************************************************)
InitializeChainDeferred ==
    /\ calls' = Append(calls,
           Call("init", "done", 0, 0, TRUE, <<>>, "resolved", "none", NoSeg, now))
    /\ UNCHANGED <<chain, height>>

InitializeChainUnguarded ==
    AddBlock("init", NewBlock(GenesisData), NoSeg)

InitializeChain ==
    IF height = -1
    THEN AddBlock("init", NewBlock(GenesisData), NoSeg)
    ELSE /\ calls' = Append(calls,
                Call("init", "done", 0, 0, TRUE, <<>>, "resolved", "none", NoSeg, now))
         /\ UNCHANGED <<chain, height>>

Construct ==
    /\ phase = "new"
    /\ phase' = "ready"
    /\ InitializeChain
    /\ UNCHANGED <<now, tampered>>

CallInitializeChain ==
    /\ phase = "ready"
    /\ Len(calls) < MaxCalls
    /\ InitializeChain
    /\ UNCHANGED <<now, phase, tampered>>

(***************************************************************************)
(* submitStar up to its first await.                                       *)
(***************************************************************************)
SubmitStarAppendingFirst(address, message, signature, star) ==
    /\ phase = "ready"
    /\ Len(calls) < MaxCalls
    /\ LET check == SubmitCheck(address, message, signature, now) IN
       IF check # "none"
       THEN /\ chain' = Append(chain,
                   Hashed(chain, height, NewBlock(StarData(address, star)), now))
            /\ height' = height + 1
            /\ calls' = Append(calls,
                   Call("submit", "done", 0, 0, TRUE, <<>>, "rejected", check,
                        message.seg, now))
       ELSE AddBlock("submit", NewBlock(StarData(address, star)), message.seg)
    /\ UNCHANGED <<now, phase, tampered>>

SubmitStarOnlyRequested(address, message, signature, star) ==
    /\ phase = "ready"
    /\ Len(calls) < MaxCalls
    /\ LET check == SubmitCheck(address, message, signature, now)
           requested == \E r \in 1..Len(calls) :
                            calls[r].kind = "request" /\ calls[r].result = message
       IN
       IF check # "none" \/ ~requested
       THEN /\ calls' = Append(calls,
                   Call("submit", "done", 0, 0, TRUE, <<>>, "rejected",
                        IF check # "none" THEN check ELSE "verify", message.seg, now))
            /\ UNCHANGED <<chain, height>>
       ELSE AddBlock("submit", NewBlock(StarData(address, star)), message.seg)
    /\ UNCHANGED <<now, phase, tampered>>

SubmitStarOnce(address, message, signature, star) ==
    /\ phase = "ready"
    /\ Len(calls) < MaxCalls
    /\ LET check == SubmitCheck(address, message, signature, now)
           used == \E u \in 1..Len(calls) :
                       /\ calls[u].kind = "submit"
                       /\ calls[u].blk > 0
                       /\ calls[u].seg = message.seg
       IN
       IF check # "none" \/ used
       THEN /\ calls' = Append(calls,
                   Call("submit", "done", 0, 0, TRUE, <<>>, "rejected",
                        IF check # "none" THEN check ELSE "old", message.seg, now))
            /\ UNCHANGED <<chain, height>>
       ELSE AddBlock("submit", NewBlock(StarData(address, star)), message.seg)
    /\ UNCHANGED <<now, phase, tampered>>

SubmitStar(address, message, signature, star) ==
    /\ phase = "ready"
    /\ Len(calls) < MaxCalls
    /\ LET check == SubmitCheck(address, message, signature, now) IN
       IF check # "none"
       THEN /\ calls' = Append(calls,
                   Call("submit", "done", 0, 0, TRUE, <<>>, "rejected", check,
                        message.seg, now))
            /\ UNCHANGED <<chain, height>>
       ELSE AddBlock("submit", NewBlock(StarData(address, star)), message.seg)
    /\ UNCHANGED <<now, phase, tampered>>

(***************************************************************************)
(* validateChain called on its own.                                        *)
(***************************************************************************)
ValidateChain ==
    /\ phase = "ready"
    /\ Len(calls) < MaxCalls
    /\ LET start == ValidateChainStart(chain) IN
       calls' = Append(calls,
           IF start.pc = "resolved"
           THEN Call("validate", "done", 0, 0, TRUE, <<>>, "resolved", "none", NoSeg, now)
           ELSE Call("validate", start.pc, 0, start.cur, start.v, <<>>, "pending",
                     "none", NoSeg, now))
    /\ UNCHANGED <<chain, height, now, phase, tampered>>

(***************************************************************************)
(* The walk of validateChain, one action per continuation.                 *)
(***************************************************************************)
WalkAfterValidate(c) ==
    /\ calls[c].pc = "validate"
    /\ LET call == calls[c]
           block == chain[call.cur]
           log == IF call.v \/ Len(call.errorLog) >= MaxLog THEN call.errorLog
                  ELSE Append(call.errorLog, InvalidEntry(block.hash))
       IN calls' = [calls EXCEPT ![c] =
              [call EXCEPT !.pc = "lookup", !.errorLog = log,
                           !.cur = GetBlockByHash(chain, block.previousBlockHash)]]
    /\ UNCHANGED <<chain, height, now, phase, tampered>>

(***************************************************************************)
(* The continuation after the lookup reads block.height first: on null     *)
(* that read throws inside the async executor, whose promise nobody        *)
(* handles, so the promise of validateChain is never settled ("threw").    *)
(* On height 0 the loop is left, the check after the loop is made and the  *)
(* log is resolved; otherwise the loop goes on with the block's validate().*)
(***************************************************************************)
AfterLoop(log, block) ==
    IF block.height # 0 THEN Append(log, BrokenEntry(block.hash)) ELSE log

WalkAfterLookup(c) ==
    /\ calls[c].pc = "lookup"
    /\ LET call == calls[c] IN
       calls' = [calls EXCEPT ![c] =
           IF call.cur = 0
           THEN [call EXCEPT !.pc = "threw"]
           ELSE IF chain[call.cur].height = 0
           THEN IF call.kind = "validate"
                THEN [call EXCEPT !.pc = "done", !.outcome = "resolved",
                                  !.errorLog = AfterLoop(call.errorLog, chain[call.cur])]
                ELSE [call EXCEPT !.pc = "awaitVC",
                                  !.errorLog = AfterLoop(call.errorLog, chain[call.cur])]
           ELSE [call EXCEPT !.pc = "validate", !.v = BlockValidate(chain[call.cur])]]
    /\ UNCHANGED <<chain, height, now, phase, tampered>>

(***************************************************************************)
(* _addBlock after validateChain has resolved; submitStar and              *)
(* initializeChain settle the same way.                                    *)
(***************************************************************************)
AddBlockResumeRollingBack(c) ==
    /\ calls[c].pc = "awaitVC"
    /\ IF Len(calls[c].errorLog) = 0
       THEN /\ calls' = [calls EXCEPT ![c] =
                   [calls[c] EXCEPT !.pc = "done", !.outcome = "resolved"]]
            /\ UNCHANGED <<chain, height>>
       ELSE /\ calls' = [calls EXCEPT ![c] =
                   [calls[c] EXCEPT !.pc = "done", !.outcome = "rejected",
                                    !.err = "invalid"]]
            /\ chain' = SubSeq(chain, 1, Len(chain) - 1)
            /\ height' = height - 1
    /\ UNCHANGED <<now, phase, tampered>>

AddBlockResume(c) ==
    /\ calls[c].pc = "awaitVC"
    /\ calls' = [calls EXCEPT ![c] =
           IF Len(calls[c].errorLog) = 0
           THEN [calls[c] EXCEPT !.pc = "done", !.outcome = "resolved"]
           ELSE [calls[c] EXCEPT !.pc = "done", !.outcome = "rejected",
                                 !.err = "invalid"]]
    /\ UNCHANGED <<chain, height, now, phase, tampered>>

(***************************************************************************)
(* The queries that resolve in the executor of their promise.              *)
(***************************************************************************)
CallGetChainHeight ==
    /\ phase = "ready"
    /\ Len(calls) < MaxCalls
    /\ calls' = Append(calls, Query("height", 0, height))
    /\ UNCHANGED <<chain, height, now, phase, tampered>>

CallGetBlockByHash(hash) ==
    /\ phase = "ready"
    /\ Len(calls) < MaxCalls
    /\ calls' = Append(calls, Query("byHash", hash, GetBlockByHash(chain, hash)))
    /\ UNCHANGED <<chain, height, now, phase, tampered>>

CallGetBlockByHeight(h) ==
    /\ phase = "ready"
    /\ Len(calls) < MaxCalls
    /\ calls' = Append(calls, Query("byHeight", h, GetBlockByHeight(chain, h)))
    /\ UNCHANGED <<chain, height, now, phase, tampered>>

RequestMessageOwnershipVerification(address) ==
    /\ phase = "ready"
    /\ Len(calls) < MaxCalls
    /\ calls' = Append(calls, Query("request", address, Message(address, NumSeg(now))))
    /\ UNCHANGED <<chain, height, now, phase, tampered>>

(***************************************************************************)
(* getStarsByWalletAddress: the loop over this.chain suspends on the       *)
(* getBData() of each block; the array iterator reads the length of the    *)
(* chain anew before each round, so blocks pushed meanwhile are visited.   *)
(***************************************************************************)
StarsRound(call, ch, i) ==
    IF i <= Len(ch)
    THEN [call EXCEPT !.pc = "scan", !.cur = i, !.got = GetBData(ch[i])]
    ELSE [call EXCEPT !.pc = "done", !.outcome = "resolved"]

GetStarsByWalletAddress(address) ==
    /\ phase = "ready"
    /\ Len(calls) < MaxCalls
    /\ calls' = Append(calls,
           StarsRound([Call("stars", "scan", 0, 0, TRUE, <<>>, "pending", "none",
                            NoSeg, now) EXCEPT !.arg = address], chain, 1))
    /\ UNCHANGED <<chain, height, now, phase, tampered>>

CollectedWhoeverOwns(stars, data, address) ==
    IF data.ok
    THEN Append(stars, [owner |-> data.owner, star |-> data.star])
    ELSE stars

Collected(stars, data, address) ==
    IF data.ok /\ data.owner = address
    THEN Append(stars, [owner |-> data.owner, star |-> data.star])
    ELSE stars

StarsAfterData(c) ==
    /\ calls[c].pc = "scan"
    /\ LET call == calls[c] IN
       calls' = [calls EXCEPT ![c] =
           StarsRound([call EXCEPT !.result = Collected(call.result, call.got, call.arg)],
                      chain, call.cur + 1)]
    /\ UNCHANGED <<chain, height, now, phase, tampered>>

(***************************************************************************)
(* The clock.                                                              *)
(***************************************************************************)
Tick ==
    /\ now < StartTime + MaxTicks
    /\ now' = now + 1
    /\ UNCHANGED <<chain, height, phase, calls, tampered>>

(***************************************************************************)
(* Tampering: somebody outside the class overwrites one field, other than  *)
(* hash, of one stored block.  tampered remembers which block and field,   *)
(* and how many calls had been issued before.                              *)
(***************************************************************************)
BogusHash == SHA256(<<>>)

TamperValues(field) ==
    IF field = "height" THEN {0, 99}
    ELSE IF field = "time" THEN {0}
    ELSE IF field = "body" THEN {<<15>>}
    ELSE {BogusHash} \cup {chain[j].hash : j \in 1..Len(chain)}

TamperFields == {"height", "time", "body", "previousBlockHash"}

Tamper(i, field, value) ==
    /\ phase = "ready"
    /\ Len(tampered) < MaxTampers
    /\ chain[i][field] # value
    /\ chain' = [chain EXCEPT ![i] = [chain[i] EXCEPT ![field] = value]]
    /\ tampered' = Append(tampered, [blk |-> i, field |-> field, ncalls |-> Len(calls)])
    /\ UNCHANGED <<height, now, phase, calls>>

SubmitInputs(address, seg, ok, star) ==
    LET message == Message(address, seg)
        signature == IF ok THEN Sign(address, message) ELSE Sign(0, message)
    IN SubmitStar(address, message, signature, star)

Walk ==
    \/ \E c \in 1..Len(calls) : WalkAfterValidate(c)
    \/ \E c \in 1..Len(calls) : WalkAfterLookup(c)
    \/ \E c \in 1..Len(calls) : AddBlockResume(c)

(***************************************************************************)
(* Spec: the public operations with every kind of input, interleaved at    *)
(* their suspension points, on a store nobody tampers with.                *)
(***************************************************************************)
Next ==
    \/ Construct
    \/ CallInitializeChain
    \/ \E address \in Addresses, seg \in Segments, ok \in BOOLEAN, star \in Stars :
          SubmitInputs(address, seg, ok, star)
    \/ ValidateChain
    \/ Walk
    \/ Tick

Spec == Init /\ [][Next]_vars

(***************************************************************************)
(* TamperSpec: accepted submissions and validations on a store whose       *)
(* blocks are overwritten from outside.  Calls interleave as in Spec; a    *)
(* block is overwritten between operations, when no call has a             *)
(* continuation left to run.                                               *)
(***************************************************************************)
Quiet == \A c \in 1..Len(calls) : calls[c].pc \in {"done", "threw"}

TamperNext ==
    \/ Construct
    \/ \E star \in Stars : SubmitInputs(65, NumSeg(StartTime + 1), TRUE, star)
    \/ ValidateChain
    \/ Walk
    \/ Quiet /\ \E i \in 1..Len(chain), field \in TamperFields :
          \E value \in TamperValues(field) : Tamper(i, field, value)

TamperSpec == Init /\ [][TamperNext]_vars

(***************************************************************************)
(* QuerySpec: every public operation, the queries included, with accepted  *)
(* submissions, on a store nobody tampers with.                            *)
(***************************************************************************)
Fresh == NumSeg(StartTime + 1)

Queries ==
    \/ CallGetChainHeight
    \/ \E hash \in {BogusHash} \cup {chain[j].hash : j \in 1..Len(chain)} :
          CallGetBlockByHash(hash)
    \/ \E h \in -1..Len(chain) : CallGetBlockByHeight(h)
    \/ \E address \in Addresses : RequestMessageOwnershipVerification(address)
    \/ \E address \in Addresses : GetStarsByWalletAddress(address)
    \/ \E c \in 1..Len(calls) : StarsAfterData(c)

QueryNext ==
    \/ Construct
    \/ CallInitializeChain
    \/ \E address \in Addresses, star \in Stars : SubmitInputs(address, Fresh, TRUE, star)
    \/ ValidateChain
    \/ Walk
    \/ Queries

QuerySpec == Init /\ [][QueryNext]_vars

(***************************************************************************)
(* OwnershipSpec: accepted submissions and ownership queries on a store    *)
(* in which the body of a block is overwritten between operations.         *)
(***************************************************************************)
OwnershipNext ==
    \/ Construct
    \/ \E address \in Addresses, star \in Stars : SubmitInputs(address, Fresh, TRUE, star)
    \/ Walk
    \/ \E address \in Addresses : GetStarsByWalletAddress(address)
    \/ \E c \in 1..Len(calls) : StarsAfterData(c)
    \/ Quiet /\ \E i \in 1..Len(chain) :
          \E value \in TamperValues("body") : Tamper(i, "body", value)

OwnershipSpec == Init /\ [][OwnershipNext]_vars

(***************************************************************************)
(* FairTamperSpec: the continuations of a call are jobs in the microtask   *)
(* queue, which runs them in order: a continuation that is ready runs.     *)
(***************************************************************************)
Continue(c) ==
    /\ c \in 1..Len(calls)
    /\ WalkAfterValidate(c) \/ WalkAfterLookup(c) \/ AddBlockResume(c)

FairTamperSpec ==
    TamperSpec /\ \A c \in 1..MaxCalls : WF_vars(Continue(c))

(***************************************************************************)
(* Properties.                                                             *)
(***************************************************************************)
Calls == 1..Len(calls)

Settled == \A c \in Calls : calls[c].outcome # "pending"

ResolvedSubmits ==
    {c \in Calls : calls[c].kind = "submit" /\ calls[c].outcome = "resolved"}

\* C1: on a store nobody tampers with, once the submissions issued so far have
\* settled, the height counter equals the number of submitStar calls that
\* resolved, and every block after the first carries the hash of the block
\* before it as previousBlockHash and its own position as height.
C1_HeightAndLinkage ==
    phase = "ready" =>
        /\ Settled => height = Cardinality(ResolvedSubmits)
        /\ \A i \in 2..Len(chain) :
               /\ chain[i].previousBlockHash = chain[i - 1].hash
               /\ chain[i].height = i - 1

C1_Witness ==
    /\ Settled
    /\ Cardinality(ResolvedSubmits) = 2
    /\ height = 2
    /\ chain[3].previousBlockHash = chain[2].hash

\* C5: in every state, and so after every append whether its call resolves or
\* rejects, the height counter is the number of stored blocks minus one.
C5_HeightIsLengthMinusOne == height = Len(chain) - 1

C5_Witness ==
    \E c \in Calls :
        /\ calls[c].blk > 0
        /\ calls[c].outcome = "rejected"
        /\ height = Len(chain) - 1
        /\ \E d \in Calls : calls[d].blk > 0 /\ calls[d].kind = "submit"
                              /\ calls[d].outcome = "resolved"

\* C6: once the store is constructed the chain holds a first block of height 0
\* without previous hash and the height counter is not negative; before any
\* operation has been issued after the constructor that block is the only one
\* and the counter is 0.
C6_GenesisAfterConstruction ==
    phase = "ready" =>
        /\ Len(chain) >= 1
        /\ height >= 0
        /\ chain[1].height = 0
        /\ chain[1].previousBlockHash = null
        /\ Len(calls) = 1 => Len(chain) = 1 /\ height = 0

C6_Witness ==
    /\ phase = "ready"
    /\ Len(calls) = 1
    /\ calls[1].kind = "init"
    /\ calls[1].outcome = "pending"
    /\ Len(chain) = 1

GenesisBlocks == {i \in 1..Len(chain) : chain[i].body = HexEncode(GenesisData)}

InitCallIssued ==
    /\ Len(calls') = Len(calls) + 1
    /\ calls'[Len(calls')].kind = "init"

\* C7: initializeChain is idempotent: a call made when the height is 0 or more
\* changes neither the chain nor the height, also while the constructor's call
\* is still pending, and the chain holds exactly one genesis block, at height 0.
C7_InitializeIdempotent ==
    /\ [](phase = "ready" => Cardinality(GenesisBlocks) = 1 /\ chain[1].height = 0)
    /\ [][(height >= 0 /\ InitCallIssued) => (chain' = chain /\ height' = height)]_vars

C7_Witness ==
    /\ Len(calls) >= 2
    /\ calls[1].kind = "init" /\ calls[1].outcome = "pending"
    /\ calls[2].kind = "init" /\ calls[2].outcome = "resolved"
    /\ Len(chain) = 1

Appends == {c \in Calls : calls[c].blk > 0}

AddBlockSettles(c) ==
    /\ c \in Appends
    /\ calls[c].pc = "awaitVC"
    /\ calls'[c].pc = "done"

\* C8: an append is not rolled back.  _addBlock resolves exactly when the
\* validation run after the push reported no error, it rejects with the error
\* list exactly when the validation reported one or more, and in either case
\* the pushed block stays in the chain and the height counter stays raised.
C8_AppendNotRolledBack ==
    /\ [](\A c \in Appends :
            /\ calls[c].blk <= Len(chain)
            /\ calls[c].blk - 1 <= height
            /\ calls[c].outcome = "resolved" => Len(calls[c].errorLog) = 0
            /\ calls[c].outcome = "rejected" =>
                   calls[c].err = "invalid" /\ Len(calls[c].errorLog) > 0)
    /\ [][\A c \in Appends : AddBlockSettles(c) =>
            /\ chain' = chain
            /\ height' = height
            /\ calls'[c].errorLog = calls[c].errorLog
            /\ calls'[c].outcome = "resolved" <=> Len(calls[c].errorLog) = 0
            /\ calls'[c].outcome = "rejected" <=> Len(calls[c].errorLog) > 0]_vars

C8_Witness ==
    \E c \in Appends :
        /\ calls[c].kind = "submit"
        /\ calls[c].outcome = "rejected"
        /\ calls[c].err = "invalid"
        /\ Len(calls[c].errorLog) > 0
        /\ calls[c].blk = Len(chain)
        /\ height = calls[c].blk - 1

CheckFailures == {"format", "old", "verify"}

SubmitRejectedByCheck ==
    /\ Len(calls') = Len(calls) + 1
    /\ calls'[Len(calls')].kind = "submit"
    /\ calls'[Len(calls')].outcome = "rejected"
    /\ calls'[Len(calls')].err \in CheckFailures

\* C9: a submitStar call that fails with an invalid message format, an expired
\* challenge or a rejected signature leaves the chain and the height counter
\* as they were before the call.
C9_FailedSubmitChangesNothing ==
    [][SubmitRejectedByCheck => (chain' = chain /\ height' = height)]_vars

C9_Witness ==
    /\ Len(chain) = 1
    /\ height = 0
    /\ \E c \in Calls : calls[c].kind = "submit" /\ calls[c].err = "verify"
    /\ \E c \in Calls : calls[c].kind = "submit" /\ calls[c].err = "format"

WellFormed(c) ==
    /\ calls[c].kind = "submit"
    /\ calls[c].seg.k = "num"
    /\ calls[c].seg.n # 0

Validations == {c \in Calls : calls[c].kind = "validate"}

Entries(c) == {calls[c].errorLog[k] : k \in 1..Len(calls[c].errorLog)}

RunAfterTamper(c, t) ==
    /\ c > tampered[t].ncalls
    /\ calls[c].tip > tampered[t].blk

\* C2: when one field other than hash of one stored block, the genesis block
\* included, has been changed and validateChain is then run on a chain whose
\* tip lies beyond that block, the error list it returns has an entry naming
\* the hash of the changed block.
C2_TamperDetected ==
    Len(tampered) = 1 =>
        \A c \in Validations :
            (RunAfterTamper(c, 1) /\ calls[c].outcome = "resolved") =>
                InvalidEntry(chain[tampered[1].blk].hash) \in Entries(c)

\* C3: when the walk of validateChain finds no stored block for a
\* previousBlockHash, it does not read a field of the missing predecessor.
C3_MissingPredecessorNotDereferenced ==
    \A c \in Calls : calls[c].pc # "threw"

\* C4: every call of validateChain eventually resolves with its list of error
\* descriptions, whatever the previousBlockHash values of the stored blocks.
C4_ValidateChainCompletes ==
    \A c \in 1..MaxCalls :
        [](c \in Validations => <>(c \in Validations /\ calls[c].outcome = "resolved"))

Submissions == {c \in Calls : calls[c].kind = "submit" /\ calls[c].blk > 0}

\* C11: however concurrent submitStar calls interleave at their suspension
\* points, no two stored blocks have the same height, every block after the
\* first carries the hash of the block before it, and every block found in
\* the chain has its height, time, previous hash and hash assigned.
C11_ConcurrentAppendsStayLinked ==
    phase = "ready" =>
        /\ \A i, j \in 1..Len(chain) : i # j => chain[i].height # chain[j].height
        /\ \A i \in 2..Len(chain) :
               /\ chain[i].previousBlockHash # null
               /\ chain[i].previousBlockHash = chain[i - 1].hash
        /\ \A i \in 1..Len(chain) :
               /\ chain[i].hash # null
               /\ chain[i].time # 0
               /\ chain[i].height = i - 1

C11_Witness ==
    \E c, d \in Submissions :
        /\ c # d
        /\ calls[c].pc \in {"validate", "lookup"}
        /\ calls[d].pc \in {"validate", "lookup"}

\* C12: on a store nobody tampers with, a submitStar call that passed its
\* checks is never rejected and its validation never throws; its block has the
\* height of the previous tip plus one and the hash of the previous tip as
\* previousBlockHash; and validateChain never reports an error.
C12_AcceptedSubmissionsResolve ==
    /\ \A c \in Submissions :
           /\ calls[c].pc # "threw"
           /\ calls[c].outcome # "rejected"
           /\ calls[c].errorLog = <<>>
           /\ chain[calls[c].blk].height = chain[calls[c].blk - 1].height + 1
           /\ chain[calls[c].blk].previousBlockHash = chain[calls[c].blk - 1].hash
    /\ \A c \in Validations :
           /\ calls[c].pc # "threw"
           /\ calls[c].errorLog = <<>>

C12_Witness ==
    /\ \E c \in Submissions :
           /\ calls[c].outcome = "resolved"
           /\ calls[c].blk = 2
           /\ chain[2].height = 1
           /\ chain[2].previousBlockHash = chain[1].hash
    /\ \E c \in Validations : calls[c].outcome = "resolved" /\ calls[c].tip = 2

StarQueries == {c \in Calls : calls[c].kind = "stars"}

RECURSIVE OwnedPayloads(_, _)
OwnedPayloads(blocks, address) ==
    IF blocks = <<>> THEN <<>>
    ELSE LET data == GetBData(Head(blocks)) IN
         (IF data.ok /\ data.owner = address
          THEN <<[owner |-> data.owner, star |-> data.star]>> ELSE <<>>)
         \o OwnedPayloads(Tail(blocks), address)

StarsResolves(c) ==
    /\ c \in StarQueries
    /\ calls[c].pc = "scan"
    /\ calls'[c].pc = "done"

C13_WitnessUndecodable ==
    \E c \in StarQueries :
        /\ calls[c].outcome = "resolved"
        /\ Len(tampered) = 1
        /\ c > tampered[1].ncalls
        /\ calls[c].result = <<>>

\* C14: through the public operations the chain is append-only: a stored block
\* keeps its position and all its fields, no block is removed and the height
\* counter never decreases.
C14_AppendOnly ==
    [][/\ Len(chain') >= Len(chain)
       /\ \A i \in 1..Len(chain) : chain'[i] = chain[i]
       /\ height' >= height]_vars

C14_Witness ==
    /\ Len(chain) = 2
    /\ \E c \in Submissions : calls[c].outcome = "resolved"
    /\ \E c \in Calls : calls[c].kind \in {"stars", "byHash", "byHeight", "validate"}

ExpectedFailure(seg, ok, time) ==
    IF seg.k # "num" \/ seg.n = 0 THEN "format"
    ELSE IF time - 300 > seg.n THEN "old"
    ELSE IF ~ok THEN "verify"
    ELSE "none"

Issued(kinds) ==
    /\ Len(calls') = Len(calls) + 1
    /\ calls'[Len(calls')].kind \in kinds
    /\ \A c \in Calls : calls'[c] = calls[c]

\* C16: on a store nobody tampers with, getBlockByHeight(h) resolves with the
\* block at position h for 0 <= h <= height and with null for any other h, and
\* getBlockByHash(x) resolves with the stored block whose hash is x, with null
\* when there is none.
C16_LookupsAgreeWithChain ==
    [][/\ Issued({"byHeight"}) =>
            LET q == calls'[Len(calls')] IN
            q.result = IF 0 <= q.arg /\ q.arg <= height THEN q.arg + 1 ELSE 0
       /\ Issued({"byHash"}) =>
            LET q == calls'[Len(calls')] IN
            /\ \A i \in 1..Len(chain) : chain[i].hash = q.arg => q.result = i
            /\ (\A i \in 1..Len(chain) : chain[i].hash # q.arg) => q.result = 0]_vars

C16_Witness ==
    /\ Len(chain) = 2
    /\ \E c \in Calls : /\ calls[c].kind = "byHeight"
                         /\ calls[c].arg = 1
                         /\ calls[c].result = 2

C16_WitnessByHash ==
    /\ Len(chain) = 2
    /\ \E c \in Calls : /\ calls[c].kind = "byHash"
                         /\ calls[c].arg = chain[2].hash
                         /\ calls[c].result = 2

\* C17: when the chain holds at most one block, validateChain resolves at once
\* with the empty list and walks no block, also when a field of the genesis
\* block has been overwritten.
C17_LoneGenesisNotValidated ==
    [][(Issued({"validate"}) /\ Len(chain) <= 1) =>
            LET call == calls'[Len(calls')] IN
            /\ call.pc = "done"
            /\ call.outcome = "resolved"
            /\ call.errorLog = <<>>
            /\ call.tip = 0]_vars

C17_Witness ==
    /\ Len(chain) = 1
    /\ Len(tampered) = 1
    /\ \E c \in Validations :
           /\ c > tampered[1].ncalls
           /\ calls[c].outcome = "resolved"
           /\ calls[c].errorLog = <<>>

ReadKinds == {"height", "byHash", "byHeight", "stars", "validate", "request"}

ReadContinues ==
    \E c \in Calls :
        /\ calls[c].kind \in {"stars", "validate"}
        /\ calls'[c] # calls[c]

\* C18: the read operations and requestMessageOwnershipVerification leave the
\* chain and the height counter unchanged, and a submitStar call with a fresh,
\* correctly signed message appends its block whether or not a challenge was
\* requested before.
C18_ReadsChangeNothing ==
    [][/\ (Issued(ReadKinds) \/ ReadContinues) => (chain' = chain /\ height' = height)
       /\ \A address \in Addresses, star \in Stars :
              SubmitInputs(address, Fresh, TRUE, star) =>
                  /\ calls'[Len(calls')].blk = Len(chain) + 1
                  /\ height' = height + 1]_vars

C18_Witness ==
    \E r, c \in Calls :
        /\ r < c
        /\ calls[r].kind = "request"
        /\ c \in Submissions

C18_WitnessUnrequested ==
    /\ \A r \in Calls : calls[r].kind # "request"
    /\ \E c \in Submissions : calls[c].outcome = "resolved"

\* C19: once a stored block of height 1 or more fails its self-validation and
\* no field is changed afterwards, every later append rejects with an error
\* list that names that block, and its block stays in the chain.
C19_CorruptionPersists ==
    Len(tampered) = 1 =>
        LET t == tampered[1].blk IN
        (t >= 2 /\ chain[t].height >= 1 /\ ~BlockValidate(chain[t])) =>
            \A c \in Appends : c > tampered[1].ncalls =>
                /\ calls[c].pc # "threw"
                /\ calls[c].blk <= Len(chain)
                /\ calls[c].pc = "done" =>
                       /\ calls[c].outcome = "rejected"
                       /\ InvalidEntry(chain[t].hash) \in Entries(c)

Unexpired(c) ==
    /\ WellFormed(c)
    /\ calls[c].at - 300 <= calls[c].seg.n

\* C20: a signed challenge is not consumed by use: every submitStar call with
\* a message the verifier accepts, made while now - 300 <= its timestamp,
\* appends a block of its own, so k such calls add k blocks of k distinct
\* heights.
C20_ChallengeReusable ==
    /\ \A c \in Calls : (Unexpired(c) /\ calls[c].err # "verify") =>
           /\ calls[c].blk > 0
           /\ chain[calls[c].blk].height = calls[c].blk - 1
           /\ \A d \in Calls \ {c} : calls[d].blk # calls[c].blk
    /\ phase = "ready" => Len(chain) = 1 + Cardinality(Submissions)

C20_Witness ==
    \E c, d \in Submissions :
        /\ c # d
        /\ calls[c].seg = calls[d].seg
        /\ chain[calls[c].blk].body = chain[calls[d].blk].body
        /\ chain[calls[c].blk].height # chain[calls[d].blk].height

====
